---- MODULE Spec2Model ----
(***************************************************************************)
(* Formal Shoes Store API (src/main.py, src/schemas.py): registration,     *)
(* login, bearer-token identity resolution, catalog reads and order        *)
(* pricing, over a document store with the collections user, shoe, order.  *)
(*                                                                         *)
(* Representation.                                                         *)
(*  - Text that the code case-folds (emails) is a sequence of characters.  *)
(*  - ObjectId strings are short names; ObjectIdStrings is the set of      *)
(*    strings bson.ObjectId accepts, every other string makes it raise.    *)
(*  - Money is an integer number of thousandths (price, running subtotal)  *)
(*    and of hundredths (the values stored after round(x, 2)).             *)
(*  - Time is an integer number of ticks, TicksPerSecond ticks a second.   *)
(*  - The store is configured (db is not None).                            *)
(***************************************************************************)
EXTENDS Integers, Sequences, FiniteSets, TLC

VARIABLES users, shoes, orders, issued, now, reg, req, resp

vars == <<users, shoes, orders, issued, now, reg, req, resp>>

----------------------------------------------------------------------------
\* Bounds of the model.
MaxUsers == 2
MaxOrders == 1
MaxCart == 2
MaxTokens == 1
MaxSkew == 3
TicksPerSecond == 2

\* Program constants.
ACCESS_TOKEN_EXPIRE_MINUTES == 60
FreeShippingFrom == 199
ShippingFeeCents == 999

Procs == {1, 2}

----------------------------------------------------------------------------
\* Input alphabets.
Names == {"Ann"}
Emails == {<<"A", "@", "x">>, <<"a", "@", "x">>, <<"b", "@", "x">>}
NoEmail == <<>>
Passwords == {<<1, 2>>, <<2, 1>>}
Salts == {3, 5}

UserOids == <<"u1", "u2", "u3", "u4">>
ShoeOids == <<"s1", "s2", "s3", "s4", "s5", "s6">>
OrderOids == <<"r1", "r2", "r3">>
Range(s) == {s[i] : i \in DOMAIN s}
\* The strings bson.ObjectId parses; "f9" is well formed and names no document.
ObjectIdStrings == Range(UserOids) \cup Range(ShoeOids) \cup Range(OrderOids) \cup {"f9"}

----------------------------------------------------------------------------
\* str.lower()
LowerChar(c) ==
    CASE c = "A" -> "a"
      [] c = "B" -> "b"
      [] c = "X" -> "x"
      [] OTHER -> c

lower(s) == [i \in 1..Len(s) |-> LowerChar(s[i])]

\* bcrypt: the digest of a password under a salt; the hash string carries both.
RECURSIVE Digest(_, _)
Digest(h, pw) ==
    IF pw = <<>> THEN h ELSE Digest((h * 31 + Head(pw)) % 1009, Tail(pw))

hash_password(password, salt) == [salt |-> salt, digest |-> Digest(salt, password)]

verify_password(plain_password, hashed_password) ==
    Digest(hashed_password.salt, plain_password) = hashed_password.digest

\* ObjectId(s): TRUE when s parses, FALSE when bson raises InvalidId.
ObjectIdParses(s) == s \in ObjectIdStrings

\* collection.find_one(filter): the positions of the matching documents; the
\* store returns the first one, or None when there is none.
find_by_id(coll, oid) == {i \in 1..Len(coll) : coll[i]._id = oid}
find_by_email(coll, e) == {i \in 1..Len(coll) : coll[i].email = e}
Min(S) == CHOOSE m \in S : \A k \in S : m <= k

\* create_document(collection, data): one atomic insert; the store generates _id.
create_document(coll, data, oid) == Append(coll, [_id |-> oid] @@ data)

\* to_public(doc): "_id" is popped and returned as the string "id".
to_public(doc) ==
    [id |-> doc._id, title |-> doc.title, price |-> doc.price, images |-> doc.images]

----------------------------------------------------------------------------
\* Token service.
TTLTicks == ACCESS_TOKEN_EXPIRE_MINUTES * 60 * TicksPerSecond

NoToken == [sig |-> "none", hasSub |-> FALSE, sub |-> "", email |-> NoEmail, exp |-> 0]

\* create_access_token with the ttl taken as seconds instead of minutes.
create_access_token_seconds(data, t) ==
    [sig |-> "good", hasSub |-> TRUE, sub |-> data.sub, email |-> data.email,
     exp |-> (t + ACCESS_TOKEN_EXPIRE_MINUTES * TicksPerSecond) \div TicksPerSecond]

\* create_access_token(data), called at time t: exp = now + ttl, which
\* jwt.encode stores as whole seconds (timegm of the time tuple).
create_access_token(data, t) ==
    [sig |-> "good", hasSub |-> TRUE, sub |-> data.sub, email |-> data.email,
     exp |-> (t + TTLTicks) \div TicksPerSecond]

\* jwt.decode(token, SECRET_KEY) at time t: TRUE when it returns the payload,
\* FALSE when it raises a JWTError (bad signature; exp < now in whole seconds).
jwt_decode(token, t) ==
    /\ token.sig = "good"
    /\ ~(token.exp < t \div TicksPerSecond)

\* HTTPAuthorizationCredentials.scheme.lower()
SchemeLower(s) ==
    CASE s = "Bearer" -> "bearer"
      [] s = "BEARER" -> "bearer"
      [] s = "Basic" -> "basic"
      [] OTHER -> s

NoHeader == [scheme |-> "", token |-> NoToken]

\* get_current_user(credentials) at time t.  user is the position of the
\* record returned, 0 when the call raises.
get_current_user(credentials, t) ==
    IF credentials.scheme = "" \/ SchemeLower(credentials.scheme) # "bearer"
    THEN [raised |-> TRUE, status |-> 401, detail |-> "Not authenticated", user |-> 0]
    ELSE IF ~jwt_decode(credentials.token, t)
    THEN [raised |-> TRUE, status |-> 401, detail |-> "Invalid token", user |-> 0]
    ELSE IF ~credentials.token.hasSub \/ credentials.token.sub = ""
    THEN [raised |-> TRUE, status |-> 401, detail |-> "Invalid token payload", user |-> 0]
    ELSE IF ~ObjectIdParses(credentials.token.sub)
    \* bson.errors.InvalidId is no JWTError: it leaves the handler uncaught
    THEN [raised |-> TRUE, status |-> 500, detail |-> "Internal Server Error", user |-> 0]
    ELSE IF find_by_id(users, credentials.token.sub) = {}
    THEN [raised |-> TRUE, status |-> 401, detail |-> "User not found", user |-> 0]
    ELSE [raised |-> FALSE, status |-> 200, detail |-> "",
          user |-> Min(find_by_id(users, credentials.token.sub))]

----------------------------------------------------------------------------
\* Order pricing.
\* round(x, 2) of x thousandths, in hundredths (ties to even).
Round2(m) ==
    LET q == m \div 10
        r == m % 10
    IN  IF r < 5 THEN q
        ELSE IF r > 5 THEN q + 1
        ELSE IF q % 2 = 0 THEN q ELSE q + 1

\* The loop of create_order, dropping a line that does not resolve instead of
\* raising.
RECURSIVE price_items_skip(_, _, _, _)
price_items_skip(cart, i, subtotal, order_items) ==
    IF i > Len(cart)
    THEN [status |-> 200, detail |-> "", lookups |-> Len(cart),
          subtotal |-> subtotal, items |-> order_items]
    ELSE IF find_by_id(shoes, cart[i].product_id) = {}
    THEN price_items_skip(cart, i + 1, subtotal, order_items)
    ELSE LET doc == shoes[Min(find_by_id(shoes, cart[i].product_id))]
         IN  price_items_skip(cart, i + 1, subtotal + doc.price * cart[i].quantity,
                 Append(order_items,
                     [product_id |-> cart[i].product_id,
                      title |-> doc.title,
                      price |-> doc.price,
                      quantity |-> cart[i].quantity,
                      size |-> cart[i].size,
                      color |-> cart[i].color,
                      image |-> IF doc.images = <<>> THEN "" ELSE doc.images[1]]))

\* The loop of create_order from cart position i on, with the running
\* subtotal and line items; lookups counts the catalog find_one calls made.
RECURSIVE price_items(_, _, _, _)
price_items(cart, i, subtotal, order_items) ==
    IF i > Len(cart)
    THEN [status |-> 200, detail |-> "", lookups |-> Len(cart),
          subtotal |-> subtotal, items |-> order_items]
    ELSE IF ~ObjectIdParses(cart[i].product_id)
    THEN [status |-> 400, detail |-> "Invalid product id", lookups |-> i - 1,
          subtotal |-> subtotal, items |-> order_items]
    ELSE IF find_by_id(shoes, cart[i].product_id) = {}
    THEN [status |-> 404, detail |-> "Product not found", lookups |-> i,
          subtotal |-> subtotal, items |-> order_items]
    ELSE LET doc == shoes[Min(find_by_id(shoes, cart[i].product_id))]
         IN  price_items(cart, i + 1, subtotal + doc.price * cart[i].quantity,
                 Append(order_items,
                     [product_id |-> cart[i].product_id,
                      title |-> doc.title,
                      price |-> doc.price,
                      quantity |-> cart[i].quantity,
                      size |-> cart[i].size,
                      color |-> cart[i].color,
                      image |-> IF doc.images = <<>> THEN "" ELSE doc.images[1]]))

\* shipping = 0 if subtotal >= 199 else 9.99, on the unrounded subtotal.
shipping_for(subtotal) ==
    IF subtotal >= FreeShippingFrom * 1000 THEN 0 ELSE ShippingFeeCents

\* order_doc of create_order for the priced cart, the contact overrides and
\* the resolved user.
order_doc(priced, contact, user) ==
    [items |-> priced.items,
     subtotal |-> Round2(priced.subtotal),
     shipping |-> shipping_for(priced.subtotal),
     total |-> Round2(priced.subtotal + shipping_for(priced.subtotal) * 10),
     customer_name |-> IF contact.customer_name # "" THEN contact.customer_name
                       ELSE user.name,
     customer_email |-> IF contact.customer_email # NoEmail
                        THEN contact.customer_email ELSE user.email,
     address |-> contact.address,
     status |-> "created",
     user_id |-> user._id]

----------------------------------------------------------------------------
\* Requests and responses.  req is the last request handled, resp its outcome:
\* gate tells whether the Depends(get_current_user) gate raised or passed.
NoContact == [customer_name |-> "", customer_email |-> NoEmail, address |-> ""]

NoReq ==
    [op |-> "", name |-> "", email |-> NoEmail, password |-> <<>>,
     header |-> NoHeader, cart |-> <<>>, contact |-> NoContact, id |-> "", at |-> 0]

NoResp ==
    [status |-> 0, detail |-> "", gate |-> "none", lookups |-> 0,
     user |-> "", token |-> NoToken, body |-> <<>>]

HTTPException(status_code, detail) ==
    [NoResp EXCEPT !.status = status_code, !.detail = detail]

IdleReg == [pc |-> "idle", name |-> "", email |-> NoEmail, password |-> <<>>]

\* The five Shoe documents of seed_shoes, prices in thousandths.
sample ==
    << [title |-> "Oxford Classic", price |-> 149990,
        images |-> <<"photo-1520975916090", "photo-1544441893">>],
       [title |-> "Derby Modern", price |-> 129000,
        images |-> <<"photo-1528701800489", "photo-1519741497674">>],
       [title |-> "Monk Strap Elite", price |-> 179500,
        images |-> <<"photo-1605733512920", "photo-1535046128895">>],
       [title |-> "Wholecut Prestige", price |-> 199000,
        images |-> <<"photo-1521579873432">>],
       [title |-> "Wingtip Heritage", price |-> 159000,
        images |-> <<"photo-1614252369475">>] >>

\* Catalogs the shoe collection may hold at start: Shoe.price is any float
\* >= 0, images may be empty.
InitialCatalogs ==
    { <<>>,
      << [_id |-> "s1", title |-> "Loafer", price |-> 198996, images |-> <<>>] >> }

Init ==
    /\ users = <<>>
    /\ shoes \in InitialCatalogs
    /\ orders = <<>>
    /\ issued = {}
    /\ now = 0
    /\ reg = [p \in Procs |-> IdleReg]
    /\ req = NoReq
    /\ resp = NoResp

----------------------------------------------------------------------------
\* POST /auth/register, in its two store operations.

\* user_doc with the email stored as typed.
user_doc_as_typed(name, email, password, salt) ==
    [name |-> name, email |-> email,
     password_hash |-> hash_password(password, salt)]

\* user_doc of register_user
user_doc(name, email, password, salt) ==
    [name |-> name, email |-> lower(email),
     password_hash |-> hash_password(password, salt)]

InFlight == Cardinality({p \in Procs : reg[p].pc = "insert"})

\* existing = db["user"].find_one({"email": payload.email.lower()})
register_user_find(p, name, email, password) ==
    /\ reg[p].pc = "idle"
    /\ req' = [NoReq EXCEPT !.op = "register", !.name = name, !.email = email,
                            !.password = password, !.at = now]
    /\ IF find_by_email(users, lower(email)) # {}
       THEN /\ resp' = HTTPException(400, "Email already registered")
            /\ reg' = reg
       ELSE /\ Len(users) + InFlight < MaxUsers
            /\ resp' = NoResp
            /\ reg' = [reg EXCEPT ![p] = [pc |-> "insert", name |-> name,
                                          email |-> email, password |-> password]]
    /\ UNCHANGED <<users, shoes, orders, issued, now>>

\* user_id = create_document("user", user_doc); return UserPublic(...)
register_user_insert(p, salt) ==
    /\ reg[p].pc = "insert"
    /\ users' = create_document(users,
                    user_doc(reg[p].name, reg[p].email, reg[p].password, salt),
                    UserOids[Len(users) + 1])
    /\ reg' = [reg EXCEPT ![p] = IdleReg]
    /\ req' = [NoReq EXCEPT !.op = "register", !.name = reg[p].name,
                            !.email = reg[p].email, !.password = reg[p].password,
                            !.at = now]
    /\ resp' = [NoResp EXCEPT !.status = 200, !.user = UserOids[Len(users) + 1]]
    /\ UNCHANGED <<shoes, orders, issued, now>>

----------------------------------------------------------------------------
\* login answering an unknown email with its own error.
login_response_no_such_user(email, password) ==
    LET m == find_by_email(users, lower(email))
    IN  IF m = {}
        THEN HTTPException(404, "User not found")
        ELSE IF ~verify_password(password, users[Min(m)].password_hash)
        THEN HTTPException(401, "Invalid credentials")
        ELSE [NoResp EXCEPT
                !.status = 200,
                !.token = create_access_token(
                              [sub |-> users[Min(m)]._id, email |-> users[Min(m)].email],
                              now)]

\* POST /auth/login: the response for the payload at the current time.
login_response(email, password) ==
    LET m == find_by_email(users, lower(email))
    IN  IF m = {} \/ ~verify_password(password, users[Min(m)].password_hash)
        THEN HTTPException(401, "Invalid credentials")
        ELSE [NoResp EXCEPT
                !.status = 200,
                !.token = create_access_token(
                              [sub |-> users[Min(m)]._id, email |-> users[Min(m)].email],
                              now)]

login_user(email, password) ==
    /\ req' = [NoReq EXCEPT !.op = "login", !.email = email, !.password = password,
                            !.at = now]
    /\ resp' = login_response(email, password)
    /\ IF resp'.status = 200
       THEN /\ \/ Cardinality(issued) < MaxTokens
               \/ [tok |-> resp'.token, at |-> now] \in issued
            /\ issued' = issued \cup {[tok |-> resp'.token, at |-> now]}
       ELSE issued' = issued
    /\ UNCHANGED <<users, shoes, orders, now, reg>>

----------------------------------------------------------------------------
\* POST /seed
seed_shoes ==
    /\ req' = [NoReq EXCEPT !.op = "seed", !.at = now]
    /\ IF Len(shoes) > 0
       THEN /\ shoes' = shoes
            /\ resp' = [NoResp EXCEPT !.status = 200, !.detail = "Shoes already exist"]
       ELSE /\ shoes' = [i \in 1..Len(sample) |-> [_id |-> ShoeOids[i]] @@ sample[i]]
            /\ resp' = [NoResp EXCEPT !.status = 200, !.detail = "seeded"]
    /\ UNCHANGED <<users, orders, issued, now, reg>>

\* GET /shoes
list_shoes ==
    /\ req' = [NoReq EXCEPT !.op = "list_shoes", !.at = now]
    /\ resp' = [NoResp EXCEPT !.status = 200,
                              !.body = [i \in 1..Len(shoes) |-> to_public(shoes[i])]]
    /\ UNCHANGED <<users, shoes, orders, issued, now, reg>>

\* GET /shoes/{shoe_id}: the HTTPException(404) is raised inside the try
\* block, whose "except Exception" turns every exception into the 400.
get_shoe_response(shoe_id) ==
    IF ~ObjectIdParses(shoe_id)
    THEN HTTPException(400, "Invalid ID")
    ELSE IF find_by_id(shoes, shoe_id) = {}
    THEN HTTPException(400, "Invalid ID")
    ELSE [NoResp EXCEPT !.status = 200,
                        !.body = <<to_public(shoes[Min(find_by_id(shoes, shoe_id))])>>]

get_shoe(shoe_id) ==
    /\ req' = [NoReq EXCEPT !.op = "get_shoe", !.id = shoe_id, !.at = now]
    /\ resp' = get_shoe_response(shoe_id)
    /\ UNCHANGED <<users, shoes, orders, issued, now, reg>>

----------------------------------------------------------------------------
\* POST /orders: the gate runs first, then the handler body.
create_order(header, cart, contact) ==
    LET gate == get_current_user(header, now)
        priced == price_items(cart, 1, 0, <<>>)
    IN  /\ req' = [NoReq EXCEPT !.op = "create_order", !.header = header,
                                !.cart = cart, !.contact = contact, !.at = now]
        /\ IF gate.raised
           THEN /\ resp' = [HTTPException(gate.status, gate.detail) EXCEPT
                               !.gate = "raised"]
                /\ orders' = orders
           ELSE IF priced.status # 200
           THEN /\ resp' = [HTTPException(priced.status, priced.detail) EXCEPT
                               !.gate = "passed", !.lookups = priced.lookups,
                               !.user = users[gate.user]._id]
                /\ orders' = orders
           ELSE /\ Len(orders) < MaxOrders
                /\ orders' = create_document(orders,
                                 order_doc(priced, contact, users[gate.user]),
                                 OrderOids[Len(orders) + 1])
                /\ resp' = [NoResp EXCEPT !.status = 200, !.gate = "passed",
                                          !.lookups = priced.lookups,
                                          !.user = users[gate.user]._id]
        /\ UNCHANGED <<users, shoes, issued, now, reg>>

----------------------------------------------------------------------------
\* Time passes by d ticks.
Tick(d) ==
    /\ now + d <= TTLTicks + MaxSkew
    /\ d = 1 => now % TTLTicks < MaxSkew
    /\ now' = now + d
    /\ req' = NoReq
    /\ resp' = NoResp
    /\ UNCHANGED <<users, shoes, orders, issued, reg>>

----------------------------------------------------------------------------
\* Inputs of the requests.
CartProductIds == {"s1", "s4", "zz"}
Quantities == {-1, 0, 1, 2}
ShoeIds == {"s1", "s4", "f9", "zz"}
Deltas == {1, TTLTicks}

CartItems(ids, qtys) ==
    {[product_id |-> i, quantity |-> q, size |-> 0, color |-> ""] : i \in ids, q \in qtys}

Carts(ids, qtys) == UNION {[1..n -> CartItems(ids, qtys)] : n \in 0..MaxCart}

Contacts ==
    {NoContact,
     [customer_name |-> "Bo", customer_email |-> <<"b", "o", "@", "x">>, address |-> "1 Main St"]}

\* Tokens nobody was issued.  Forged carries a signature made without the
\* key; the others are signed with SECRET_KEY by a holder of the key.
FarExp == 2 * ACCESS_TOKEN_EXPIRE_MINUTES * 60
SignedToken(hasSub, sub) ==
    [sig |-> "good", hasSub |-> hasSub, sub |-> sub, email |-> <<"a", "@", "x">>, exp |-> FarExp]
Forged == [SignedToken(TRUE, "u1") EXCEPT !.sig = "bad"]
CraftedTokens ==
    {Forged, SignedToken(FALSE, ""), SignedToken(TRUE, ""), SignedToken(TRUE, "zz"),
     SignedToken(TRUE, "f9")}

IssuedTokens == {i.tok : i \in issued}

Bearer(tokens) == {[scheme |-> s, token |-> t] : s \in {"Bearer", "bearer"}, t \in tokens}

Headers ==
    {NoHeader, [scheme |-> "Basic", token |-> Forged]}
        \cup Bearer(IssuedTokens \cup CraftedTokens)

----------------------------------------------------------------------------
\* The whole service.
Next ==
    \/ \E p \in Procs, n \in Names, e \in Emails, pw \in Passwords :
           register_user_find(p, n, e, pw)
    \/ \E p \in Procs, s \in Salts : register_user_insert(p, s)
    \/ \E e \in Emails, pw \in Passwords : login_user(e, pw)
    \/ seed_shoes
    \/ list_shoes
    \/ \E id \in ShoeIds : get_shoe(id)
    \/ \E h \in Headers, c \in Carts(CartProductIds, Quantities), k \in Contacts :
           create_order(h, c, k)
    \/ \E d \in Deltas : Tick(d)

Spec == Init /\ [][Next]_vars

\* The specifications below are parts of the service: each takes a subset of
\* the routes and of their inputs, with the actions above unchanged.

\* Registration and login alone, requests interleaving at store operations.
NextAuth ==
    \/ \E p \in Procs, n \in Names, e \in Emails, pw \in Passwords :
           register_user_find(p, n, e, pw)
    \/ \E p \in Procs, s \in Salts : register_user_insert(p, s)
    \/ \E e \in Emails, pw \in Passwords : login_user(e, pw)

SpecAuth == Init /\ [][NextAuth]_vars

\* The same, each request starting only once the register request before it
\* has run to completion.
NextSeq ==
    \/ /\ InFlight = 0
       /\ \E p \in Procs, n \in Names, e \in Emails, pw \in Passwords :
              register_user_find(p, n, e, pw)
    \/ \E p \in Procs, s \in Salts : register_user_insert(p, s)
    \/ /\ InFlight = 0
       /\ \E e \in Emails, pw \in Passwords : login_user(e, pw)

SpecSeq == Init /\ [][NextSeq]_vars

\* One account, its tokens, the clock and every route, POST /orders with two
\* carts.
GateEmails == {<<"A", "@", "x">>}
GatePasswords == {<<1, 2>>}
GateCarts == {<<>>, <<[product_id |-> "s1", quantity |-> 1, size |-> 0, color |-> ""]>>}

NextGate ==
    \/ \E n \in Names, e \in GateEmails, pw \in GatePasswords :
           register_user_find(1, n, e, pw)
    \/ register_user_insert(1, 3)
    \/ \E e \in GateEmails, pw \in GatePasswords : login_user(e, pw)
    \/ \E h \in Headers, c \in GateCarts : create_order(h, c, NoContact)
    \/ seed_shoes
    \/ list_shoes
    \/ \E id \in ShoeIds : get_shoe(id)
    \/ \E d \in Deltas : Tick(d)

SpecGate == Init /\ [][NextGate]_vars

\* One account, one token, the catalog and the carts.
NextOrders ==
    \/ \E n \in Names, e \in GateEmails, pw \in GatePasswords :
           register_user_find(1, n, e, pw)
    \/ register_user_insert(1, 3)
    \/ \E e \in GateEmails, pw \in GatePasswords : login_user(e, pw)
    \/ seed_shoes
    \/ list_shoes
    \/ \E id \in ShoeIds : get_shoe(id)
    \/ /\ Len(orders) < MaxOrders
       /\ \E h \in {NoHeader} \cup Bearer(IssuedTokens),
             c \in Carts(CartProductIds, Quantities), k \in Contacts :
              create_order(h, c, k)

SpecOrders == Init /\ [][NextOrders]_vars

\* One account, one token, the catalog and carts of up to MaxCart lines.
CartLines ==
    {[product_id |-> "s1", quantity |-> 2, size |-> 0, color |-> ""],
     [product_id |-> "s4", quantity |-> 1, size |-> 0, color |-> ""],
     [product_id |-> "zz", quantity |-> 1, size |-> 0, color |-> ""]}

NextCart ==
    \/ \E n \in Names, e \in GateEmails, pw \in GatePasswords :
           register_user_find(1, n, e, pw)
    \/ register_user_insert(1, 3)
    \/ \E e \in GateEmails, pw \in GatePasswords : login_user(e, pw)
    \/ seed_shoes
    \/ \E h \in {NoHeader} \cup {[scheme |-> "Bearer", token |-> t] : t \in IssuedTokens},
          c \in UNION {[1..n -> CartLines] : n \in 0..MaxCart} :
           create_order(h, c, NoContact)

SpecCart == Init /\ [][NextCart]_vars

----------------------------------------------------------------------------
\* Properties.

SameEmail(a, b) == lower(a) = lower(b)
Registered(e) == \E i \in 1..Len(users) : SameEmail(users[i].email, e)
IsPrefix(a, b) == Len(a) <= Len(b) /\ SubSeq(b, 1, Len(a)) = a

\* C1: the user collection never holds two records whose emails are equal
\* after lowercasing, whatever the interleaving of register requests.
C1_EmailUnique ==
    \A i, j \in 1..Len(users) :
        i # j => ~SameEmail(users[i].email, users[j].email)

\* C2: with register requests running one after the other, a request whose
\* email equals, after lowercasing, the email of a record already stored ends
\* with 400 "Email already registered" and leaves the collection as it was; a
\* request for an email not yet stored is not refused, and its insert adds
\* exactly one record, with the lowercased email; no two records ever share a
\* lowercased email.
C2_SequentialDuplicate ==
    [][ /\ C1_EmailUnique'
        /\ (req'.op = "register" /\ Registered(req'.email))
               => /\ resp' = HTTPException(400, "Email already registered")
                  /\ users' = users
        /\ (req'.op = "register" /\ ~Registered(req'.email))
               => resp'.status # 400
        /\ (req'.op = "register" /\ resp'.status = 200)
               => /\ ~Registered(req'.email)
                  /\ Len(users') = Len(users) + 1
                  /\ IsPrefix(users, users')
                  /\ users'[Len(users')].email = lower(req'.email)
      ]_vars

\* C2 witness: a record for a@x is stored and a request for A@x was refused.
C2_Witness ==
    /\ req.op = "register"
    /\ req.email = <<"A", "@", "x">>
    /\ resp = HTTPException(400, "Email already registered")
    /\ \E i \in 1..Len(users) : users[i].email = <<"a", "@", "x">>

\* C3: a login whose email has no record and a login whose password fits no
\* record of its email get the same response, 401 "Invalid credentials" with
\* no token, and leave the store and the issued tokens as they were.
NoRecordFor(e) == \A i \in 1..Len(users) : users[i].email # lower(e)
WrongPasswordFor(e, pw) ==
    /\ ~NoRecordFor(e)
    /\ \A i \in 1..Len(users) :
           users[i].email = lower(e) => ~verify_password(pw, users[i].password_hash)

C3_LoginFailuresAlike ==
    [][ (req'.op = "login"
            /\ (NoRecordFor(req'.email) \/ WrongPasswordFor(req'.email, req'.password)))
        => /\ resp' = HTTPException(401, "Invalid credentials")
           /\ resp'.token = NoToken
           /\ UNCHANGED <<users, shoes, orders, issued>>
      ]_vars

\* C3 witness: a login with the registered email, typed in another case, and
\* the wrong password was refused.
C3_Witness ==
    /\ req.op = "login"
    /\ WrongPasswordFor(req.email, req.password)
    /\ req.email # lower(req.email)
    /\ resp.status = 401

\* What a bearer header must carry for the request to be authenticated at
\* time t: a token signed with the key, not expired, whose subject is the id
\* of a stored user.
ValidBearer(h, t) ==
    /\ SchemeLower(h.scheme) = "bearer"
    /\ h.token.sig = "good"
    /\ t \div TicksPerSecond <= h.token.exp
    /\ h.token.hasSub
    /\ \E i \in 1..Len(users) : users[i]._id = h.token.sub

\* C4: every call of get_current_user that fails ends in 401.
C4_GateFailsWith401 ==
    (req.op = "create_order" /\ resp.gate = "raised") => resp.status = 401

\* C5: a create-order request without a valid bearer token ends in 401 with
\* no catalog lookup made, and inserts no order.
C5_UnauthenticatedBeforeLookup ==
    [][ (req'.op = "create_order" /\ ~ValidBearer(req'.header, req'.at))
        => /\ resp'.status = 401
           /\ resp'.gate = "raised"
           /\ resp'.lookups = 0
           /\ orders' = orders
      ]_vars

\* C6: with the gate passed, a cart with a line that does not resolve is
\* refused with the error of its first such line (400 "Invalid product id"
\* for an ill-formed id, 404 "Product not found" for a well-formed id with no
\* catalog item) and the order collection stays as it was; an order is
\* inserted only when every line resolves, and then it holds one line item
\* per cart line, in cart order, with the catalog's title and price.
InCatalog(id) == \E k \in 1..Len(shoes) : shoes[k]._id = id
CatalogItem(id) == shoes[CHOOSE k \in 1..Len(shoes) : shoes[k]._id = id]
Unresolved(cart) == {i \in 1..Len(cart) : ~InCatalog(cart[i].product_id)}

C6_AllOrNothing ==
    [][ /\ (req'.op = "create_order" /\ resp'.status # 200) => orders' = orders
        /\ (req'.op = "create_order" /\ resp'.gate = "passed")
           => IF Unresolved(req'.cart) # {}
              THEN LET bad == req'.cart[Min(Unresolved(req'.cart))].product_id
                   IN  /\ orders' = orders
                       /\ IF bad \in ObjectIdStrings
                          THEN resp'.status = 404 /\ resp'.detail = "Product not found"
                          ELSE resp'.status = 400 /\ resp'.detail = "Invalid product id"
              ELSE /\ resp'.status = 200
                   /\ Len(orders') = Len(orders) + 1
                   /\ IsPrefix(orders, orders')
                   /\ LET lines == orders'[Len(orders')].items
                      IN  /\ Len(lines) = Len(req'.cart)
                          /\ \A i \in 1..Len(lines) :
                               /\ lines[i].product_id = req'.cart[i].product_id
                               /\ lines[i].quantity = req'.cart[i].quantity
                               /\ lines[i].price = CatalogItem(lines[i].product_id).price
                               /\ lines[i].title = CatalogItem(lines[i].product_id).title
      ]_vars

\* C6 witness: a cart whose first line resolved and whose second line names
\* no catalog item was refused with 404 after two lookups, no order stored.
C6_Witness ==
    /\ req.op = "create_order"
    /\ Len(req.cart) = 2
    /\ Unresolved(req.cart) = {2}
    /\ resp.status = 404
    /\ resp.lookups = 2
    /\ orders = <<>>

\* C7: in every stored order, shipping is 0 when the recorded subtotal is
\* >= 199 and 9.99 otherwise.
C7_ShippingFromRecordedSubtotal ==
    \A k \in 1..Len(orders) :
        orders[k].shipping =
            IF orders[k].subtotal >= FreeShippingFrom * 100 THEN 0 ELSE ShippingFeeCents

\* C8: every stored order has quantity >= 1 in each line item and a subtotal
\* and total >= 0.
C8_QuantitiesAndTotals ==
    \A k \in 1..Len(orders) :
        /\ \A i \in 1..Len(orders[k].items) : orders[k].items[i].quantity >= 1
        /\ orders[k].subtotal >= 0
        /\ orders[k].total >= 0

\* C9: get-catalog-item answers 400 "Invalid ID" for an ill-formed id only,
\* 404 "Shoe not found" for a well-formed id with no catalog item, and the
\* item in public form when it exists.
C9_GetShoeFailureModes ==
    req.op = "get_shoe" =>
        IF req.id \notin ObjectIdStrings
        THEN resp.status = 400 /\ resp.detail = "Invalid ID"
        ELSE IF ~InCatalog(req.id)
        THEN resp.status = 404 /\ resp.detail = "Shoe not found"
        ELSE /\ resp.status = 200
             /\ resp.body = << [id |-> req.id,
                                title |-> CatalogItem(req.id).title,
                                price |-> CatalogItem(req.id).price,
                                images |-> CatalogItem(req.id).images] >>

\* A request presenting, as a bearer token, the token of issue event i.
Presents(i) ==
    /\ req.op = "create_order"
    /\ SchemeLower(req.header.scheme) = "bearer"
    /\ req.header.token = i.tok

ResolvedTo(tok) ==
    /\ resp.gate = "passed"
    /\ resp.user = tok.sub
    /\ \E k \in 1..Len(users) : users[k]._id = tok.sub /\ users[k].email = tok.email

RejectedAsExpired == resp.gate = "raised" /\ resp.status = 401 /\ resp.detail = "Invalid token"

====
